---- MODULE Spec2Model ----
(***************************************************************************)
(* OAuth authorization-code exchange and credential vault of              *)
(* acquisition-pulse: the state token codec (connectors/state.py), the    *)
(* per-platform credential vault (connectors/*_connector.py) and the      *)
(* callback handler (connectors/oauth_server.py).                         *)
(*                                                                         *)
(* Strings are sequences of ASCII codes wherever the code looks inside    *)
(* them (state tokens, payloads, signatures); opaque values (access       *)
(* tokens, client secrets, platform names) are TLA+ strings.              *)
(***************************************************************************)
EXTENDS Integers, Sequences, FiniteSets, TLC

VARIABLES
    \* ---- state token codec (connectors/state.py) ----
    hmacKey,    \* os.environ DASHBOARD_HMAC_KEY / DASHBOARD_SECRET_KEY as bytes, <<>> when unset
    now,        \* int(time.time())
    tok,        \* the state token travelling through the redirect
    issued,     \* ghost: what make_state_token was called with, and the token it returned
    vres,       \* the last verify_state_token call: its arguments and its result
    \* ---- credential vault (connectors/*_connector.py) ----
    keyring,      \* the OS secret store: platform -> user key -> token
    metaFile,     \* data/connectors_meta.json: platform -> metadata dict
    keyringAvail, \* _KEYRING_AVAILABLE of the running process
    canEncrypt,   \* can_encrypt(): Fernet importable and DASHBOARD_SECRET_KEY set
    lastOp,       \* the last vault operation: its arguments and what it returned
    opCount,      \* number of vault operations so far
    confirm,      \* st.session_state confirm_save_<platform>_plain of the admin's session
    \* ---- OAuth callback (connectors/oauth_server.py) ----
    fastapi,      \* _FASTAPI_AVAILABLE
    metaCreds,    \* META_CLIENT_ID and META_CLIENT_SECRET are both set
    cb,           \* the callback run in progress: request, locals, position, history
    spendCsv,     \* data/spend.csv: who wrote it last
    runs,         \* number of callback runs finished
    \* ---- concurrent writers of the metadata file ----
    procs,        \* per process: the call in progress and its position
    \* ---- token broker (backend.py) and dashboard callback (app_dashboard.py) ----
    brokerEnv,    \* which client credentials and keys the two processes' environments hold
    tokenFile,    \* tokens.json of the broker: platform -> encrypted access token
    dash,         \* the dashboard's callback run in progress: query, locals, position, history
    lastEx        \* the last exchange call made on its own: its arguments and its result

tokenVars == <<hmacKey, now, tok, issued, vres>>

vaultVars == <<keyring, metaFile, keyringAvail, canEncrypt, lastOp, opCount>>

sessionVars == <<confirm>>

flowVars == <<fastapi, metaCreds, cb, spendCsv, runs>>

raceVars == <<procs>>

brokerVars == <<brokerEnv, tokenFile, dash, lastEx>>

vars == <<hmacKey, now, tok, issued, vres,
          keyring, metaFile, keyringAvail, canEncrypt, lastOp, opCount, confirm,
          fastapi, metaCreds, cb, spendCsv, runs, procs,
          brokerEnv, tokenFile, dash, lastEx>>

(***************************************************************************)
(* Bounds of the model.                                                    *)
(***************************************************************************)
MaxClock == 2
MaxOps == 3
MaxRuns == 1
MaxJobs == 1
MaxCalls == 2

(***************************************************************************)
(* ASCII helpers.                                                          *)
(***************************************************************************)
ChDot == 46
ChEq == 61
ChAt == 64
ChPipe == 124
ChPlus == 43
ChMinus == 45
ChUnderscore == 95

IsDigit(c) == c >= 48 /\ c <= 57

\* str(n) for a non-negative int n, as in the f-string of make_state_token
RECURSIVE IntToStr(_)
IntToStr(n) ==
    IF n < 10 THEN <<48 + n>> ELSE Append(IntToStr(n \div 10), 48 + (n % 10))

Contains(s, c) == \E i \in 1..Len(s) : s[i] = c

\* index of the first / last occurrence of c in s (0 when absent)
FirstIndex(s, c) ==
    IF Contains(s, c) THEN CHOOSE i \in 1..Len(s) : s[i] = c /\ \A j \in 1..(i-1) : s[j] # c
    ELSE 0
LastIndex(s, c) ==
    IF Contains(s, c) THEN CHOOSE i \in 1..Len(s) : s[i] = c /\ \A j \in (i+1)..Len(s) : s[j] # c
    ELSE 0

(***************************************************************************)
(* base64.urlsafe_b64encode / urlsafe_b64decode over bytes 0..255.         *)
(***************************************************************************)
\* the URL-safe alphabet: A-Z a-z 0-9 - _
B64Char(n) ==
    IF n < 26 THEN 65 + n
    ELSE IF n < 52 THEN 97 + (n - 26)
    ELSE IF n < 62 THEN 48 + (n - 52)
    ELSE IF n = 62 THEN ChMinus
    ELSE ChUnderscore

\* the decoder's table after urlsafe_b64decode's translate('-_' -> '+/'):
\* '-' and '+' both mean 62, '_' and '/' both mean 63; -1: not in the alphabet
B64Index(c) ==
    IF c >= 65 /\ c <= 90 THEN c - 65
    ELSE IF c >= 97 /\ c <= 122 THEN c - 97 + 26
    ELSE IF IsDigit(c) THEN c - 48 + 52
    ELSE IF c = ChMinus \/ c = ChPlus THEN 62
    ELSE IF c = ChUnderscore \/ c = 47 THEN 63
    ELSE -1

RECURSIVE B64Encode(_)
B64Encode(bs) ==
    IF Len(bs) = 0 THEN <<>>
    ELSE IF Len(bs) = 1 THEN
        <<B64Char(bs[1] \div 4), B64Char((bs[1] % 4) * 16), ChEq, ChEq>>
    ELSE IF Len(bs) = 2 THEN
        <<B64Char(bs[1] \div 4),
          B64Char((bs[1] % 4) * 16 + (bs[2] \div 16)),
          B64Char((bs[2] % 16) * 4), ChEq>>
    ELSE
        <<B64Char(bs[1] \div 4),
          B64Char((bs[1] % 4) * 16 + (bs[2] \div 16)),
          B64Char((bs[2] % 16) * 4 + (bs[3] \div 64)),
          B64Char(bs[3] % 64)>> \o B64Encode(SubSeq(bs, 4, Len(bs)))

\* binascii.a2b_base64 in its default (non-strict) mode, character by
\* character: characters outside the alphabet are skipped, a '=' counts as
\* padding only from the third place of a quad on, a complete pad sequence
\* ends the parse (whatever follows is ignored), and the bits left over in
\* the last character of an incomplete group are dropped.
\* Result: [ok |-> FALSE] on binascii.Error, else the decoded bytes.
RECURSIVE A2B(_, _, _, _, _, _)
A2B(s, i, quad, left, pads, out) ==
    IF i > Len(s) THEN
        [ok |-> quad = 0, bytes |-> out]
    ELSE IF s[i] = ChEq THEN
        IF quad >= 2 /\ quad + pads + 1 >= 4 THEN [ok |-> TRUE, bytes |-> out]
        ELSE A2B(s, i + 1, quad, left, IF quad >= 2 THEN pads + 1 ELSE pads, out)
    ELSE IF B64Index(s[i]) < 0 THEN
        A2B(s, i + 1, quad, left, pads, out)
    ELSE
        LET v == B64Index(s[i]) IN
        IF quad = 0 THEN A2B(s, i + 1, 1, v, 0, out)
        ELSE IF quad = 1 THEN
            A2B(s, i + 1, 2, v % 16, 0, Append(out, left * 4 + (v \div 16)))
        ELSE IF quad = 2 THEN
            A2B(s, i + 1, 3, v % 4, 0, Append(out, left * 16 + (v \div 4)))
        ELSE
            A2B(s, i + 1, 0, 0, 0, Append(out, left * 64 + v))

B64Decode(s) == A2B(s, 1, 0, 0, 0, <<>>)

\* bytes.decode(): the payloads of the model are ASCII, and a byte >= 128
\* that is not part of a well-formed multi-byte sequence raises
\* UnicodeDecodeError.  No token of the model decodes to a well-formed
\* multi-byte sequence (one changed character touches one byte's high bits
\* only), so the decode fails exactly when some byte is >= 128.
Utf8Ok(bs) == \A i \in 1..Len(bs) : bs[i] < 128

(***************************************************************************)
(* hmac.new(key, payload, sha256).hexdigest(): HMAC-SHA256 is taken to be  *)
(* collision free, so the digest is an injective lower-case hex rendering  *)
(* of (key, payload).                                                      *)
(***************************************************************************)
HexDigit(n) == IF n < 10 THEN 48 + n ELSE 97 + (n - 10)

RECURSIVE HexOf(_)
HexOf(bs) ==
    IF Len(bs) = 0 THEN <<>>
    ELSE <<HexDigit(bs[1] \div 16), HexDigit(bs[1] % 16)>> \o HexOf(Tail(bs))

HmacHex(key, payload) == HexOf(key) \o <<HexDigit(0), HexDigit(0)>> \o HexOf(payload)

\* hmac.compare_digest on two ASCII str: plain equality in constant time
CompareDigest(a, b) == a = b

(***************************************************************************)
(* int(ts_s): optional surrounding whitespace, an optional sign, decimal   *)
(* digits with single underscores between digits.  [ok |-> FALSE] stands   *)
(* for ValueError.                                                         *)
(***************************************************************************)
IsSpace(c) == c \in {9, 10, 11, 12, 13, 32}

RECURSIVE LStrip(_)
LStrip(s) == IF Len(s) > 0 /\ IsSpace(s[1]) THEN LStrip(Tail(s)) ELSE s

RECURSIVE RStrip(_)
RStrip(s) ==
    IF Len(s) > 0 /\ IsSpace(s[Len(s)]) THEN RStrip(SubSeq(s, 1, Len(s) - 1)) ELSE s

\* the value of a digit string in which underscores have been checked
RECURSIVE DigitsValue(_, _)
DigitsValue(s, acc) ==
    IF Len(s) = 0 THEN acc
    ELSE IF s[1] = ChUnderscore THEN DigitsValue(Tail(s), acc)
    ELSE DigitsValue(Tail(s), acc * 10 + (s[1] - 48))

WellFormedDigits(s) ==
    /\ Len(s) > 0
    /\ IsDigit(s[1])
    /\ IsDigit(s[Len(s)])
    /\ \A i \in 1..Len(s) : IsDigit(s[i]) \/ s[i] = ChUnderscore
    /\ \A i \in 1..(Len(s) - 1) : ~(s[i] = ChUnderscore /\ s[i + 1] = ChUnderscore)

ParseInt(raw) ==
    LET s == RStrip(LStrip(raw))
        signed == Len(s) > 0 /\ (s[1] = ChPlus \/ s[1] = ChMinus)
        body == IF signed THEN Tail(s) ELSE s
    IN  IF WellFormedDigits(body)
        THEN [ok |-> TRUE,
              val |-> IF signed /\ s[1] = ChMinus THEN 0 - DigitsValue(body, 0)
                      ELSE DigitsValue(body, 0)]
        ELSE [ok |-> FALSE, val |-> 0]

(***************************************************************************)
(* connectors/state.py                                                     *)
(***************************************************************************)
\* verify_state_token's default max_age_seconds
DefaultMaxAge == 600

\* _get_key(): None (here <<>>) when neither variable is set or it is empty
GetKey(env) == env

HasKey(key) == Len(key) > 0

\* make_state_token(email, ttl_seconds): ttl_seconds is not used by the body
MakeStateToken(email, ttl, key, clock) ==
    LET payload == email \o <<ChPipe>> \o IntToStr(clock)
        b64 == B64Encode(payload)
    IN  IF HasKey(GetKey(key))
        THEN b64 \o <<ChDot>> \o HmacHex(GetKey(key), payload)
        ELSE b64

NoEmail == [ok |-> FALSE, email |-> <<>>]

\* a faulty payload check that does not look at the age: C14 must not
\* hold of it
CheckPayloadAgeless(payload, maxAge, clock) ==
    IF ~Contains(payload, ChPipe) THEN NoEmail
    ELSE
        LET cut == FirstIndex(payload, ChPipe)
            email == SubSeq(payload, 1, cut - 1)
            ts == ParseInt(SubSeq(payload, cut + 1, Len(payload)))
        IN  IF ~ts.ok THEN NoEmail
            ELSE [ok |-> TRUE, email |-> email]

\* lines 64-68: split the payload, parse the timestamp, check the age
CheckPayload(payload, maxAge, clock) ==
    IF ~Contains(payload, ChPipe) THEN NoEmail
    ELSE
        LET cut == FirstIndex(payload, ChPipe)
            email == SubSeq(payload, 1, cut - 1)
            ts == ParseInt(SubSeq(payload, cut + 1, Len(payload)))
        IN  IF ~ts.ok THEN NoEmail
            ELSE IF clock - ts.val > maxAge THEN NoEmail
            ELSE [ok |-> TRUE, email |-> email]

\* line 54: the signed branch is taken only for a token with a '.' AND a key
TakesSignedBranch(token, key) == Contains(token, ChDot) /\ HasKey(key)

\* verify_state_token(token, max_age_seconds): every exception is None
VerifyStateToken(token, maxAge, env, clock) ==
    LET key == GetKey(env) IN
    IF TakesSignedBranch(token, key) THEN
        LET cut == LastIndex(token, ChDot)
            dec == B64Decode(SubSeq(token, 1, cut - 1))
            sig == SubSeq(token, cut + 1, Len(token))
        IN  IF ~dec.ok \/ ~Utf8Ok(dec.bytes) THEN NoEmail
            ELSE IF ~CompareDigest(HmacHex(key, dec.bytes), sig) THEN NoEmail
            ELSE CheckPayload(dec.bytes, maxAge, clock)
    ELSE
        LET dec == B64Decode(token)
        IN  IF ~dec.ok \/ ~Utf8Ok(dec.bytes) THEN NoEmail
            ELSE CheckPayload(dec.bytes, maxAge, clock)

(***************************************************************************)
(* The state token round trip: a token is issued, travels through the      *)
(* redirect (where one character may be changed), time passes, and the     *)
(* callback side verifies it.                                              *)
(***************************************************************************)
\* "k": the signing key of this deployment; <<>>: no key configured
Keys == {<<>>, <<107>>}

\* what a peer process may be configured with: no key, or the key "q"
PeerKeys == {<<>>, <<113>>}

\* a@b, ab@c, abc@d: payloads of every length modulo 3; a|b@c: an address
\* whose local part holds the payload's separator
Emails == {<<97, 64, 98>>, <<97, 98, 64, 99>>, <<97, 98, 99, 64, 100>>,
           <<97, ChPipe, 98, 64, 99>>}

MaxAges == {1, DefaultMaxAge}

\* characters a changed position may receive: A h = . + ! 0 f, and the
\* alphabet character following the one that is there
NextB64(c) == IF B64Index(c) >= 0 /\ B64Index(c) < 63 THEN {B64Char(B64Index(c) + 1)} ELSE {}
TamperChars(c) == ({65, 104, ChEq, ChDot, ChPlus, 33, 48, 102} \cup NextB64(c)) \ {c}

NotIssued == [n |-> 0, email |-> <<>>, ttl |-> 0, at |-> 0, key |-> <<>>, tok |-> <<>>,
              part |-> "none", pos |-> 0]
NotVerified == [called |-> FALSE, tok |-> <<>>, maxAge |-> 0, at |-> 0, key |-> <<>>,
                res |-> NoEmail]

\* which part of a signed token position i lies in
PartOf(t, i) ==
    IF ~Contains(t, ChDot) THEN "payload"
    ELSE IF i < LastIndex(t, ChDot) THEN "payload"
    ELSE IF i = LastIndex(t, ChDot) THEN "separator"
    ELSE "signature"

\* the dashboard mints a state token for the signed-in user:
\* make_state_token(email, ttl_seconds=ttl)
Issue(email, ttl) ==
    /\ issued.n = 0
    /\ tok' = MakeStateToken(email, ttl, hmacKey, now)
    /\ issued' = [n |-> 1, email |-> email, ttl |-> ttl, at |-> now, key |-> hmacKey,
                  tok |-> tok', part |-> "none", pos |-> 0]
    /\ vres' = NotVerified
    /\ UNCHANGED <<hmacKey, now, vaultVars, flowVars, raceVars, sessionVars, brokerVars>>

\* a peer process with another key configuration mints the token
PeerIssue(email, k) ==
    /\ issued.n = 0
    /\ k # hmacKey
    /\ tok' = MakeStateToken(email, DefaultMaxAge, k, now)
    /\ issued' = [n |-> 1, email |-> email, ttl |-> DefaultMaxAge, at |-> now, key |-> k,
                  tok |-> tok', part |-> "none", pos |-> 0]
    /\ vres' = NotVerified
    /\ UNCHANGED <<hmacKey, now, vaultVars, flowVars, raceVars, sessionVars, brokerVars>>

\* one character of the token is changed on the way
Tamper(i, c) ==
    /\ issued.n = 1
    /\ issued.part = "none"
    /\ ~vres.called
    /\ now = issued.at
    /\ tok' = [tok EXCEPT ![i] = c]
    /\ issued' = [issued EXCEPT !.part = PartOf(tok, i), !.pos = i]
    /\ UNCHANGED <<hmacKey, now, vres, vaultVars, flowVars, raceVars, sessionVars, brokerVars>>

\* time.time() advances by a second, or by the default maximum age
Tick(d) ==
    /\ issued.n = 1
    /\ ~vres.called
    /\ \/ d = 1 /\ (now % DefaultMaxAge) < MaxClock
       \/ d = DefaultMaxAge /\ now < DefaultMaxAge
    /\ now' = now + d
    /\ UNCHANGED <<hmacKey, tok, issued, vres, vaultVars, flowVars, raceVars, sessionVars, brokerVars>>

\* the callback side calls verify_state_token(tok, maxAge)
Verify(maxAge) ==
    /\ issued.n = 1
    /\ ~vres.called
    /\ vres' = [called |-> TRUE, tok |-> tok, maxAge |-> maxAge, at |-> now,
                key |-> hmacKey,
                res |-> VerifyStateToken(tok, maxAge, hmacKey, now)]
    /\ UNCHANGED <<hmacKey, now, tok, issued, vaultVars, flowVars, raceVars, sessionVars, brokerVars>>

TokenNext ==
    \/ \E e \in Emails, ttl \in MaxAges : Issue(e, ttl)
    \/ \E e \in Emails, k \in PeerKeys : PeerIssue(e, k)
    \/ \E i \in 1..Len(tok) : \E c \in TamperChars(tok[i]) : Tamper(i, c)
    \/ \E d \in {1, DefaultMaxAge} : Tick(d)
    \/ \E a \in MaxAges : Verify(a)


(***************************************************************************)
(* The credential vault.  meta_connector.py, google_connector.py and       *)
(* tiktok_connector.py hold the same functions, with the platform name     *)
(* and the keyring entry name as the only differences; they are modelled   *)
(* once, with the platform as a parameter.                                 *)
(*                                                                         *)
(* A value is [k, v]: k = "none" for a key that is not in the dict,        *)
(* "null" for JSON null, "plain" for a string as given and "enc" for       *)
(* Fernet output; v is the string (for "enc": the plaintext inside).       *)
(* The metadata file is taken to be readable and writable.                 *)
(***************************************************************************)
Platforms == {"meta", "google", "tiktok"}

\* 'default'
DefaultKey == <<100, 101, 102, 97, 117, 108, 116>>

\* a@b
UserA == <<97, 64, 98>>

UserKeys == {DefaultKey, UserA}

\* "dashboard_user@localhost": the key the dashboard's callback stores under
DashboardUser == <<100, 97, 115, 104, 98, 111, 97, 114, 100, 95, 117, 115, 101, 114, 64, 108, 111, 99, 97, 108, 104, 111, 115, 116>>

\* the keyring entry 'meta_access_token', with no user key behind the name:
\* the slot of the single-token versions of the connector
LegacyKey == <<>>

\* every user key a token is stored under
VaultKeys == UserKeys \cup {DashboardUser, LegacyKey}

Tokens == {"S", "L"}
Secrets == {"s1", "s2"}
ClientIds == {"id1"}
\* what the secret input of the admin form may hold
AdminSecrets == Secrets \cup {""}
Accounts == {"act1"}

None == [k |-> "none", v |-> ""]
Null == [k |-> "null", v |-> ""]
Plain(x) == [k |-> "plain", v |-> x]
Enc(x) == [k |-> "enc", v |-> x]

Present(x) == x.k # "none"

\* Python truthiness of dict.get(key) for a string entry
Truthy(x) == x.k \in {"plain", "enc"} /\ x.v # ""

Fields == {"client_id", "client_secret", "client_secret_enc", "redirect_uri", "last_sync",
           "email_ad_accounts", "access_token_encrypted"}

NoTokens == [u \in VaultKeys |-> None]

\* {} : a dict with no keys
EmptyDict == [f |-> [x \in Fields |-> None], tokens |-> [has |-> FALSE, map |-> NoTokens]]

\* encrypt_token: None when the cipher is unavailable
EncryptToken(x) == IF canEncrypt THEN Enc(x) ELSE None

\* decrypt_token: None when the cipher is unavailable or the input is no
\* Fernet token of this key (InvalidToken is caught)
DecryptToken(x) == IF canEncrypt /\ x.k = "enc" THEN Plain(x.v) ELSE None

\* dict.update
DictUpdate(existing, meta) ==
    [f |-> [x \in Fields |-> IF Present(meta.f[x]) THEN meta.f[x] ELSE existing.f[x]],
     tokens |-> IF meta.tokens.has THEN meta.tokens ELSE existing.tokens]

\* save_meta lines 89-100: a client_secret in the dict being saved is
\* replaced by client_secret_enc when the cipher is available
EncryptSecretInMeta(meta) ==
    IF Present(meta.f["client_secret"]) /\ canEncrypt /\ meta.f["client_secret"].k = "plain"
    THEN [meta EXCEPT !.f["client_secret_enc"] = EncryptToken(meta.f["client_secret"].v),
                      !.f["client_secret"] = None]
    ELSE meta

\* save_meta lines 102-106 applied to the file content `data` that was read
MergeIntoData(data, p, meta) ==
    [data EXCEPT ![p] = DictUpdate(data[p], EncryptSecretInMeta(meta))]

\* a faulty save_meta that replaces the platform's entry by the dict it is
\* given: C16 must not hold of it
SaveMetaOverwrite(data, p, meta) == [data EXCEPT ![p] = EncryptSecretInMeta(meta)]

\* save_meta(platform, meta): read, merge, write
SaveMeta(data, p, meta) == MergeIntoData(data, p, meta)

\* load_meta(platform) or {}: client_secret_enc is decrypted into
\* client_secret when the cipher is available and the result is non-empty
LoadMeta(data, p) ==
    LET cfg == data[p]
        dec == DecryptToken(cfg.f["client_secret_enc"])
    IN  IF Present(cfg.f["client_secret_enc"]) /\ canEncrypt /\ Truthy(dec)
        THEN [cfg EXCEPT !.f["client_secret"] = dec]
        ELSE cfg

\* meta.setdefault('last_sync', None)
SetDefaultLastSync(meta) ==
    IF Present(meta.f["last_sync"]) THEN meta ELSE [meta EXCEPT !.f["last_sync"] = Null]

\* store_token_for_<platform>_user, the keyring branch (lines 149-161 of
\* meta_connector.py): taken when the keyring is importable and
\* set_password does not raise
StoreInKeyring(kr, data, p, u, t) ==
    [kr |-> [kr EXCEPT ![p][u] = Plain(t)],
     data |-> SaveMeta(data, p, SetDefaultLastSync(LoadMeta(data, p))),
     ok |-> TRUE]

\* a faulty encrypted-file branch that writes the token as it is when the
\* cipher is unavailable: C4 must not hold of it
StoreInFilePlain(kr, data, p, u, t) ==
    LET meta == LoadMeta(data, p)
        tokens == [meta.tokens.map EXCEPT ![u] = IF canEncrypt THEN Enc(t) ELSE Plain(t)]
        meta2 == SetDefaultLastSync([meta EXCEPT !.tokens = [has |-> TRUE, map |-> tokens]])
    IN  [kr |-> kr, data |-> SaveMeta(data, p, meta2), ok |-> TRUE]

\* the encrypted-file branch (lines 168-184)
StoreInFile(kr, data, p, u, t) ==
    IF ~canEncrypt THEN [kr |-> kr, data |-> data, ok |-> FALSE]
    ELSE IF ~Truthy(EncryptToken(t)) THEN [kr |-> kr, data |-> data, ok |-> FALSE]
    ELSE
        LET meta == LoadMeta(data, p)
            tokens == [meta.tokens.map EXCEPT ![u] = EncryptToken(t)]
            meta2 == SetDefaultLastSync([meta EXCEPT !.tokens = [has |-> TRUE, map |-> tokens]])
        IN  [kr |-> kr, data |-> SaveMeta(data, p, meta2), ok |-> TRUE]

\* store_token_for_<platform>_user(token, user_email); krRaises: whether
\* keyring.set_password raises in this call
StoreTokenForUser(kr, data, p, u, t, krRaises) ==
    IF keyringAvail /\ ~krRaises THEN StoreInKeyring(kr, data, p, u, t)
    ELSE StoreInFile(kr, data, p, u, t)

\* get_token_for_<platform>_user(user_email); krRaises: whether
\* keyring.get_password raises in this call
GetTokenForUser(kr, data, p, u, krRaises) ==
    IF keyringAvail /\ ~krRaises /\ Truthy(kr[p][u]) THEN kr[p][u]
    ELSE
        LET enc == LoadMeta(data, p).tokens.map[u]
        IN  IF ~Truthy(enc) THEN None ELSE DecryptToken(enc)

\* token_storage_location_for_user(user_email)
TokenStorageLocation(kr, data, p, u, krRaises) ==
    IF keyringAvail /\ ~krRaises /\ Truthy(kr[p][u]) THEN "keyring"
    ELSE IF Truthy(LoadMeta(data, p).tokens.map[u]) THEN "encrypted_file"
    ELSE "none"

\* a faulty migration that copies the token and leaves the file entry:
\* C15 must not hold of it
MigrateLeavesFileEntry(kr, data, p, u, krRaises) ==
    LET m == LoadMeta(data, p)
        enc == m.tokens.map[u]
        token == DecryptToken(enc)
    IN  IF ~keyringAvail \/ ~Truthy(enc) \/ ~Truthy(token) \/ krRaises
        THEN [kr |-> kr, data |-> data, ok |-> FALSE]
        ELSE [kr |-> [kr EXCEPT ![p][u] = token], data |-> SaveMeta(data, p, m), ok |-> TRUE]

\* migrate_file_token_to_keyring_for_user(user_email)
MigrateForUser(kr, data, p, u, krRaises) ==
    LET m == LoadMeta(data, p)
        enc == m.tokens.map[u]
        token == DecryptToken(enc)
    IN  IF ~keyringAvail THEN [kr |-> kr, data |-> data, ok |-> FALSE]
        ELSE IF ~Truthy(enc) THEN [kr |-> kr, data |-> data, ok |-> FALSE]
        ELSE IF ~Truthy(token) THEN [kr |-> kr, data |-> data, ok |-> FALSE]
        ELSE IF krRaises THEN [kr |-> kr, data |-> data, ok |-> FALSE]
        ELSE [kr |-> [kr EXCEPT ![p][u] = token],
              data |-> SaveMeta(data, p,
                         [m EXCEPT !.tokens = [has |-> TRUE,
                                               map |-> [m.tokens.map EXCEPT ![u] = None]]]),
              ok |-> TRUE]

\* the credential record the admin setter passes to save_meta
\* (app_dashboard.py line 1598)
CredentialRecord(cid, secret) ==
    [EmptyDict EXCEPT !.f["client_id"] = Plain(cid),
                      !.f["client_secret"] = Plain(secret),
                      !.f["redirect_uri"] = Plain("")]

\* update_last_sync(platform)
UpdateLastSync(data, p) ==
    SaveMeta(data, p, [LoadMeta(data, p) EXCEPT !.f["last_sync"] = Plain("synced")])

(***************************************************************************)
(* The vault as a state machine: operations arrive one at a time; the      *)
(* process may be restarted with another environment in between.           *)
(***************************************************************************)
NoOp == [op |-> "none", p |-> "", u |-> <<>>, t |-> "", ok |-> FALSE,
         krUsable |-> FALSE, res |-> None]

EmptyKeyring == [p \in Platforms |-> [u \in VaultKeys |-> None]]
EmptyFile == [p \in Platforms |-> EmptyDict]

\* store(platform, userKey, token)
Store(p, u, t, krRaises) ==
    /\ opCount < MaxOps
    /\ LET r == StoreTokenForUser(keyring, metaFile, p, u, t, krRaises) IN
        /\ keyring' = r.kr
        /\ metaFile' = r.data
        /\ lastOp' = [op |-> "store", p |-> p, u |-> u, t |-> t, ok |-> r.ok,
                      krUsable |-> keyringAvail /\ ~krRaises, res |-> None]
    /\ opCount' = opCount + 1
    /\ UNCHANGED <<keyringAvail, canEncrypt, tokenVars, flowVars, raceVars, sessionVars, brokerVars>>

\* retrieve(platform, userKey)
Retrieve(p, u, krRaises) ==
    /\ opCount < MaxOps
    /\ lastOp' = [op |-> "retrieve", p |-> p, u |-> u, t |-> "",
                  ok |-> Truthy(GetTokenForUser(keyring, metaFile, p, u, krRaises)),
                  krUsable |-> keyringAvail /\ ~krRaises,
                  res |-> GetTokenForUser(keyring, metaFile, p, u, krRaises)]
    /\ opCount' = opCount + 1
    /\ UNCHANGED <<keyring, metaFile, keyringAvail, canEncrypt, tokenVars, flowVars, raceVars, sessionVars, brokerVars>>

\* migrateToKeyring(platform, userKey)
Migrate(p, u, krRaises) ==
    /\ opCount < MaxOps
    /\ LET r == MigrateForUser(keyring, metaFile, p, u, krRaises) IN
        /\ keyring' = r.kr
        /\ metaFile' = r.data
        /\ lastOp' = [op |-> "migrate", p |-> p, u |-> u, t |-> "", ok |-> r.ok,
                      krUsable |-> keyringAvail /\ ~krRaises, res |-> None]
    /\ opCount' = opCount + 1
    /\ UNCHANGED <<keyringAvail, canEncrypt, tokenVars, flowVars, raceVars, sessionVars, brokerVars>>

\* migrate_file_token_to_keyring(): the single token a former version left
\* in access_token_encrypted goes to the keyring entry 'meta_access_token';
\* the dict without the field is handed to save_meta
MigrateLegacy(krRaises) ==
    /\ opCount < MaxOps
    /\ LET m == LoadMeta(metaFile, "meta")
           enc == m.f["access_token_encrypted"]
           token == DecryptToken(enc)
           moved == keyringAvail /\ Truthy(enc) /\ Truthy(token) /\ ~krRaises
       IN /\ keyring' = IF moved THEN [keyring EXCEPT !["meta"][LegacyKey] = token]
                         ELSE keyring
          /\ metaFile' = IF moved
                          THEN SaveMeta(metaFile, "meta",
                                        [m EXCEPT !.f["access_token_encrypted"] = None])
                          ELSE metaFile
          /\ lastOp' = [op |-> "migrateLegacy", p |-> "meta", u |-> LegacyKey, t |-> "",
                        ok |-> moved, krUsable |-> keyringAvail /\ ~krRaises, res |-> token]
    /\ opCount' = opCount + 1
    /\ UNCHANGED <<keyringAvail, canEncrypt, tokenVars, flowVars, raceVars, sessionVars, brokerVars>>

\* a faulty gate that never asks: C12 must not hold of it
NeverNeedsConfirmation(p, secret) == FALSE

\* the admin setter's gate (app_dashboard.py lines 1591-1597): a secret
\* that would be written in plaintext needs the session's confirmation
NeedsConfirmation(p, secret) == secret # "" /\ ~canEncrypt /\ ~confirm[p]

\* the record the setter of platform p passes to save_meta: only Meta's
\* form has a redirect URI
AdminRecord(p, cid, secret) ==
    IF p = "meta" THEN CredentialRecord(cid, secret)
    ELSE [CredentialRecord(cid, secret) EXCEPT !.f["redirect_uri"] = None]

\* storeCredential(platform, record): the 'Save <platform> OAuth settings'
\* button; ticked is what the confirmation checkbox returns in this run
StoreCredential(p, cid, secret, ticked) ==
    /\ opCount < MaxOps
    /\ IF NeedsConfirmation(p, secret) /\ ~ticked
       THEN /\ UNCHANGED <<metaFile, confirm>>
            /\ lastOp' = [op |-> "storeCredential", p |-> p, u |-> <<>>, t |-> secret,
                          ok |-> FALSE, krUsable |-> FALSE, res |-> None]
       ELSE /\ metaFile' = SaveMeta(metaFile, p, AdminRecord(p, cid, secret))
            /\ confirm' = IF NeedsConfirmation(p, secret)
                          THEN [confirm EXCEPT ![p] = TRUE] ELSE confirm
            /\ lastOp' = [op |-> "storeCredential", p |-> p, u |-> <<>>, t |-> secret,
                          ok |-> TRUE, krUsable |-> FALSE, res |-> None]
    /\ opCount' = opCount + 1
    /\ UNCHANGED <<keyring, keyringAvail, canEncrypt, tokenVars, flowVars, raceVars, brokerVars>>

\* the 'Remove <platform> OAuth settings' button: save_meta(platform, {})
RemoveCredential(p) ==
    /\ opCount < MaxOps
    /\ metaFile' = SaveMeta(metaFile, p, EmptyDict)
    /\ lastOp' = [op |-> "removeCredential", p |-> p, u |-> <<>>, t |-> "",
                  ok |-> TRUE, krUsable |-> FALSE, res |-> None]
    /\ opCount' = opCount + 1
    /\ UNCHANGED <<keyring, keyringAvail, canEncrypt, tokenVars, flowVars, raceVars, sessionVars, brokerVars>>

\* the 'Add / Update mapping' button (app_dashboard.py lines 1472-1496):
\* the e-mail to ad-account mappings of Meta, as one opaque value
SetMapping(acct) ==
    /\ opCount < MaxOps
    /\ metaFile' = SaveMeta(metaFile, "meta",
                            [LoadMeta(metaFile, "meta") EXCEPT !.f["email_ad_accounts"] = Plain(acct)])
    /\ lastOp' = [op |-> "setMapping", p |-> "meta", u |-> <<>>, t |-> acct,
                  ok |-> TRUE, krUsable |-> FALSE, res |-> None]
    /\ opCount' = opCount + 1
    /\ UNCHANGED <<keyring, keyringAvail, canEncrypt, tokenVars, flowVars, raceVars, sessionVars, brokerVars>>

\* the process is restarted with the keyring library or the cipher key
\* installed or removed; the admin's session does not survive it
Restart(kr, ce) ==
    /\ opCount < MaxOps
    /\ <<kr, ce>> # <<keyringAvail, canEncrypt>>
    /\ keyringAvail' = kr
    /\ canEncrypt' = ce
    /\ confirm' = [p \in Platforms |-> FALSE]
    /\ lastOp' = NoOp
    /\ opCount' = opCount + 1
    /\ UNCHANGED <<keyring, metaFile, tokenVars, flowVars, raceVars, brokerVars>>

VaultNext ==
    \/ \E p \in Platforms, u \in UserKeys, t \in Tokens, f \in BOOLEAN : Store(p, u, t, f)
    \/ \E p \in Platforms, u \in UserKeys, f \in BOOLEAN : Retrieve(p, u, f)
    \/ \E p \in Platforms, u \in UserKeys, f \in BOOLEAN : Migrate(p, u, f)
    \/ \E f \in BOOLEAN : MigrateLegacy(f)
    \/ \E p \in Platforms, c \in ClientIds, x \in AdminSecrets, k \in BOOLEAN :
            StoreCredential(p, c, x, k)
    \/ \E p \in Platforms : RemoveCredential(p)
    \/ \E a \in Accounts : SetMapping(a)
    \/ \E kr \in BOOLEAN, ce \in BOOLEAN : Restart(kr, ce)

(***************************************************************************)
(* The OAuth callback, oauth_server._callback_core, step by step.          *)
(*                                                                         *)
(* A response is an HTTP status; where the code builds the response with   *)
(* HTMLResponse(...) alone, the call raises TypeError when FastAPI is not  *)
(* installed (HTMLResponse is None then), which ends the run with an       *)
(* exception instead.  google_connector and tiktok_connector import what   *)
(* meta_connector imports, so they are taken to be importable.             *)
(***************************************************************************)
\* the platform parameter: the three platforms, an unknown one, none
PlatformParams == {"meta", "google", "tiktok", "shopify", ""}

\* zz : a state that is no token and holds no '@'
GarbageState == <<122, 122>>

\* the state values a callback may carry: none, a token minted at time 0
\* for a@b under this deployment's key configuration, that token with its
\* last character changed, a bare e-mail address, garbage
TokenForA == MakeStateToken(UserA, DefaultMaxAge, hmacKey, 0)
BrokenTokenForA == [TokenForA EXCEPT ![Len(TokenForA)] = IF @ = 33 THEN 34 ELSE 33]
StateParams == {<<>>, TokenForA, BrokenTokenForA, UserA, GarbageState}

\* data/spend.csv before any fetch has written it
NoSpend == [by |-> "", kind |-> ""]

ProviderOutcomes == {"ok", "http_error", "no_token", "raise"}
FetchOutcomes == {"real", "synthetic", "csv_failed", "raise"}

IdleCb == [pc |-> "idle", platform |-> "", code |-> "", token |-> "", error |-> "",
           state |-> <<>>, short |-> "", long |-> "", user |-> <<>>,
           storedOk |-> FALSE, rows |-> FALSE,
           status |-> 0, raised |-> FALSE,
           exchanges |-> 0, upgrades |-> 0, stateRes |-> "unchecked",
           stateAt |-> 0, storeCalls |-> 0, fetchCalls |-> 0,
           wroteCsv |-> FALSE, wroteLastSync |-> FALSE,
           fetched |-> [df |-> FALSE, message |-> ""], fetchKind |-> "",
           krBefore |-> EmptyKeyring, fileBefore |-> EmptyFile]

\* return HTMLResponse(text, status_code=code)
HtmlOnly(c, code) ==
    IF fastapi THEN [c EXCEPT !.pc = "done", !.status = code]
    ELSE [c EXCEPT !.pc = "done", !.raised = TRUE]

\* a faulty response that turns a run without fetched rows into an error:
\* C22 must not hold of it
RespondErrorWithoutRows(c, code) ==
    [c EXCEPT !.pc = "done", !.status = IF code = 200 /\ ~c.rows THEN 500 ELSE code]

\* return (text, code) if not _FASTAPI_AVAILABLE else HTMLResponse(...)
Respond(c, code) == [c EXCEPT !.pc = "done", !.status = code]

\* an exception leaves _callback_core
Raise(c) == [c EXCEPT !.pc = "done", !.raised = TRUE]

\* the connector a platform parameter selects for the store (lines 292-340)
ConnectorOf(plat) == IF plat \in Platforms THEN plat ELSE "meta"

\* lines 184-262 up to the first provider request
CbStart(plat, code, token, error, state) ==
    /\ cb.pc = "idle"
    /\ runs < MaxRuns
    /\ LET c0 == [IdleCb EXCEPT !.platform = plat, !.code = code, !.token = token,
                                !.error = error, !.state = state, !.long = token,
                                !.krBefore = keyring, !.fileBefore = metaFile]
       IN cb' = IF error # "" THEN Respond(c0, 400)
                ELSE IF token = "" /\ code # "" THEN
                    IF plat = "meta" THEN
                        IF ~metaCreds THEN HtmlOnly(c0, 500)
                        ELSE [c0 EXCEPT !.pc = "exchange"]
                    ELSE HtmlOnly(c0, 400)
                ELSE IF token = "" THEN Respond(c0, 400)
                ELSE [c0 EXCEPT !.pc = "state"]
    /\ UNCHANGED <<fastapi, metaCreds, spendCsv, runs, tokenVars, vaultVars, raceVars, sessionVars, brokerVars>>

\* lines 204-224: the code is sent to the provider's token endpoint
CbExchange(outcome) ==
    /\ cb.pc = "exchange"
    /\ LET c1 == [cb EXCEPT !.exchanges = @ + 1]
       IN cb' = IF outcome = "raise" THEN Raise(c1)
                ELSE IF outcome = "http_error" THEN HtmlOnly(c1, 500)
                ELSE IF outcome = "no_token" THEN HtmlOnly(c1, 500)
                ELSE [c1 EXCEPT !.pc = "upgrade", !.short = "S"]
    /\ UNCHANGED <<fastapi, metaCreds, spendCsv, runs, tokenVars, vaultVars, raceVars, sessionVars, brokerVars>>

\* lines 226-244 and 261-262: the short-lived token is upgraded
CbUpgrade(outcome) ==
    /\ cb.pc = "upgrade"
    /\ LET c1 == [cb EXCEPT !.upgrades = @ + 1]
       IN cb' = IF outcome = "raise" THEN Raise(c1)
                ELSE IF outcome = "http_error" THEN [c1 EXCEPT !.pc = "state", !.long = c1.short]
                ELSE IF outcome = "no_token" THEN Respond(c1, 400)
                ELSE [c1 EXCEPT !.pc = "state", !.long = "L"]
    /\ UNCHANGED <<fastapi, metaCreds, spendCsv, runs, tokenVars, vaultVars, raceVars, sessionVars, brokerVars>>

\* a faulty state check that lets a rejected state through to the default
\* slot: the amended C3 must not hold of it
ResolveStateLenient(c) ==
    LET v == VerifyStateToken(c.state, DefaultMaxAge, hmacKey, now) IN
    IF Len(c.state) = 0 THEN [c EXCEPT !.pc = "store", !.stateRes = "absent"]
    ELSE IF v.ok /\ Len(v.email) > 0
        THEN [c EXCEPT !.pc = "store", !.stateRes = "verified", !.user = v.email]
    ELSE IF Contains(c.state, ChAt)
        THEN [c EXCEPT !.pc = "store", !.stateRes = "fallback", !.user = c.state]
    ELSE [c EXCEPT !.pc = "store", !.stateRes = "rejected"]

\* lines 268-284: the state is verified and mapped to a user
ResolveState(c) ==
    LET v == VerifyStateToken(c.state, DefaultMaxAge, hmacKey, now) IN
    IF Len(c.state) = 0 THEN [c EXCEPT !.pc = "store", !.stateRes = "absent"]
    ELSE IF v.ok /\ Len(v.email) > 0
        THEN [c EXCEPT !.pc = "store", !.stateRes = "verified", !.user = v.email]
    ELSE IF Contains(c.state, ChAt)
        THEN [c EXCEPT !.pc = "store", !.stateRes = "fallback", !.user = c.state]
    ELSE [HtmlOnly(c, 400) EXCEPT !.stateRes = "rejected"]

CbState ==
    /\ cb.pc = "state"
    /\ cb' = [ResolveState(cb) EXCEPT !.stateAt = cb.exchanges + 1]
    /\ UNCHANGED <<fastapi, metaCreds, spendCsv, runs, tokenVars, vaultVars, raceVars, sessionVars, brokerVars>>

\* user_email or 'default'
UserKeyOf(user) == IF Len(user) = 0 THEN DefaultKey ELSE user

\* lines 289-342, the store: the platform's connector, or meta's for an
\* unknown platform
CbStore(krRaises) ==
    /\ cb.pc = "store"
    /\ UserKeyOf(cb.user) \in UserKeys
    /\ LET r == StoreTokenForUser(keyring, metaFile, ConnectorOf(cb.platform),
                                  UserKeyOf(cb.user), cb.long, krRaises)
       IN /\ keyring' = r.kr
          /\ metaFile' = r.data
          /\ cb' = [cb EXCEPT !.storedOk = r.ok, !.storeCalls = @ + 1,
                              !.pc = IF cb.platform \in Platforms THEN "fetch" ELSE "respond"]
    /\ UNCHANGED <<fastapi, metaCreds, spendCsv, runs, tokenVars,
                   keyringAvail, canEncrypt, lastOp, opCount, raceVars, sessionVars, brokerVars>>

\* what <platform>_connector.fetch_spend_and_persist hands back to its
\* caller: the DataFrame of normalized rows, or nothing when it raised.
\* That synthetic rows were used goes to the log only; no message and no
\* flag comes with the rows (google_connector.py lines 333-347)
FetchReturn(outcome) == [df |-> outcome # "raise", message |-> ""]

\* lines 297-303 (313-318, 328-333): fetch_spend_and_persist is called
\* whatever the store returned; an exception is swallowed
CbFetch(outcome) ==
    /\ cb.pc = "fetch"
    /\ IF outcome \in {"real", "synthetic"}
       THEN /\ spendCsv' = [by |-> cb.platform, kind |-> outcome]
            /\ metaFile' = UpdateLastSync(metaFile, cb.platform)
            /\ cb' = [cb EXCEPT !.pc = "respond", !.fetchCalls = @ + 1,
                                !.rows = FetchReturn(outcome).df,
                                !.fetched = FetchReturn(outcome), !.fetchKind = outcome,
                                !.wroteCsv = TRUE, !.wroteLastSync = TRUE]
       ELSE /\ cb' = [cb EXCEPT !.pc = "respond", !.fetchCalls = @ + 1,
                                !.rows = FetchReturn(outcome).df,
                                !.fetched = FetchReturn(outcome), !.fetchKind = outcome]
            /\ UNCHANGED <<spendCsv, metaFile>>
    /\ UNCHANGED <<fastapi, metaCreds, runs, tokenVars,
                   keyring, keyringAvail, canEncrypt, lastOp, opCount, raceVars, sessionVars, brokerVars>>

\* lines 344-357
CbRespond ==
    /\ cb.pc = "respond"
    /\ cb' = IF ~cb.storedOk THEN Respond(cb, 500) ELSE Respond(cb, 200)
    /\ UNCHANGED <<fastapi, metaCreds, spendCsv, runs, tokenVars, vaultVars, raceVars, sessionVars, brokerVars>>

\* the request is over; the server waits for the next callback
CbReturn ==
    /\ cb.pc = "done"
    /\ runs < MaxRuns
    /\ cb' = IdleCb
    /\ runs' = runs + 1
    /\ UNCHANGED <<fastapi, metaCreds, spendCsv, tokenVars, vaultVars, raceVars, sessionVars, brokerVars>>

FlowNext ==
    \/ \E plat \in PlatformParams, code \in {"", "X"}, token \in {"", "SIM"},
          error \in {"", "access_denied"}, state \in StateParams :
            CbStart(plat, code, token, error, state)
    \/ \E o \in ProviderOutcomes : CbExchange(o)
    \/ \E o \in ProviderOutcomes : CbUpgrade(o)
    \/ CbState
    \/ \E f \in BOOLEAN : CbStore(f)
    \/ \E o \in FetchOutcomes : CbFetch(o)
    \/ CbRespond
    \/ CbReturn

\* how a finished run ended, in the words of the flow's state machine
Finished == cb.pc = "done"
Errored == Finished /\ (cb.raised \/ cb.status # 200)
Succeeded == Finished /\ ~cb.raised /\ cb.status = 200

\* the tokens held by the two backends
FileTokens(data) == [p \in Platforms |-> data[p].tokens.map]

(***************************************************************************)
(* Calls into the connectors from concurrent requests.  Nothing in the     *)
(* connectors locks the metadata file, so the calls of two requests        *)
(* interleave at every file access: load_meta's read, save_meta's read and *)
(* save_meta's write.                                                      *)
(***************************************************************************)
Procs == {1, 2}
Jobs == {"store", "sync", "cred"}

IdleProc == [pc |-> "idle", job |-> "", mode |-> "", p |-> "meta", u |-> DefaultKey,
             t |-> "", meta |-> EmptyDict, data |-> EmptyFile, ok |-> FALSE, jobs |-> 0]

\* a request calls store_token_for_<platform>_user, update_last_sync or
\* save_meta with a credential record
PCall(i, job, p, u, t) ==
    /\ procs[i].pc = "idle"
    /\ procs[i].jobs < MaxJobs
    /\ procs' = [procs EXCEPT ![i] =
                    [IdleProc EXCEPT !.pc = IF job = "store" THEN "enter"
                                           ELSE IF job = "sync" THEN "load" ELSE "read",
                                     !.job = job, !.p = p, !.u = u, !.t = t,
                                     !.meta = IF job = "cred" THEN CredentialRecord("id1", t)
                                              ELSE EmptyDict,
                                     !.jobs = procs[i].jobs]]
    /\ UNCHANGED <<tokenVars, vaultVars, flowVars, sessionVars, brokerVars>>

\* store_token_for_<platform>_user up to its load_meta: the keyring
\* write, or the choice of the encrypted-file branch, or the failure
PStoreEnter(i, krRaises) ==
    /\ procs[i].pc = "enter"
    /\ LET q == procs[i] IN
        IF keyringAvail /\ ~krRaises
        THEN /\ keyring' = [keyring EXCEPT ![q.p][q.u] = Plain(q.t)]
             /\ procs' = [procs EXCEPT ![i].pc = "load", ![i].mode = "keyring"]
        ELSE IF ~canEncrypt \/ ~Truthy(EncryptToken(q.t))
        THEN /\ procs' = [procs EXCEPT ![i].pc = "idle", ![i].ok = FALSE,
                                       ![i].jobs = @ + 1]
             /\ UNCHANGED keyring
        ELSE /\ procs' = [procs EXCEPT ![i].pc = "load", ![i].mode = "file"]
             /\ UNCHANGED keyring
    /\ UNCHANGED <<tokenVars, metaFile, keyringAvail, canEncrypt, lastOp, opCount, flowVars, sessionVars, brokerVars>>

\* the dict a call builds from what load_meta returns
BuiltMeta(q, loaded) ==
    IF q.job = "sync" THEN [loaded EXCEPT !.f["last_sync"] = Plain("synced")]
    ELSE IF q.mode = "keyring" THEN SetDefaultLastSync(loaded)
    ELSE SetDefaultLastSync(
            [loaded EXCEPT !.tokens = [has |-> TRUE,
                                       map |-> [loaded.tokens.map EXCEPT ![q.u] = EncryptToken(q.t)]]])

\* load_meta(platform) reads the file
PLoad(i) ==
    /\ procs[i].pc = "load"
    /\ procs' = [procs EXCEPT ![i].pc = "read",
                              ![i].meta = BuiltMeta(procs[i], LoadMeta(metaFile, procs[i].p))]
    /\ UNCHANGED <<tokenVars, vaultVars, flowVars, sessionVars, brokerVars>>

\* save_meta reads the file (lines 80-88)
PRead(i) ==
    /\ procs[i].pc = "read"
    /\ procs' = [procs EXCEPT ![i].pc = "write", ![i].data = metaFile]
    /\ UNCHANGED <<tokenVars, vaultVars, flowVars, sessionVars, brokerVars>>

\* save_meta merges into what it read and writes the file (lines 89-108)
PWrite(i) ==
    /\ procs[i].pc = "write"
    /\ metaFile' = MergeIntoData(procs[i].data, procs[i].p, procs[i].meta)
    /\ procs' = [procs EXCEPT ![i].pc = "idle", ![i].ok = TRUE, ![i].jobs = @ + 1]
    /\ UNCHANGED <<tokenVars, keyring, keyringAvail, canEncrypt, lastOp, opCount, flowVars, sessionVars, brokerVars>>

RaceNext ==
    \/ \E i \in Procs, job \in Jobs, p \in Platforms, u \in UserKeys, t \in Tokens :
            PCall(i, job, p, u, t)
    \/ \E i \in Procs, f \in BOOLEAN : PStoreEnter(i, f)
    \/ \E i \in Procs : PLoad(i)
    \/ \E i \in Procs : PRead(i)
    \/ \E i \in Procs : PWrite(i)

\* what a completed call has put into the vault is there
Applied(q) ==
    IF q.job = "sync" THEN metaFile[q.p].f["last_sync"] = Plain("synced")
    ELSE IF q.job = "cred"
        THEN \/ metaFile[q.p].f["client_secret"] = Plain(q.t)
             \/ metaFile[q.p].f["client_secret_enc"] = EncryptToken(q.t)
    ELSE IF q.mode = "keyring"
        THEN keyring[q.p][q.u] = Plain(q.t) /\ Present(metaFile[q.p].f["last_sync"])
    ELSE metaFile[q.p].tokens.map[q.u] = EncryptToken(q.t)

(***************************************************************************)
(* The token broker, backend.exchange_oauth_code, and the dashboard's      *)
(* callback, app_dashboard._handle_oauth_callback, with the local exchange *)
(* helpers _exchange_<platform>_code.                                      *)
(*                                                                         *)
(* A provider's answer to a token request is either an exception of the    *)
(* transport (a timeout, a refused connection) or an HTTP response with a  *)
(* status and a JSON body: an access token, a refresh token and, for       *)
(* TikTok, the embedded status code beside the data.                       *)
(***************************************************************************)
\* the embedded "code" of a TikTok body
CodeOf(n) == [has |-> TRUE, n |-> n]
NoCode == [has |-> FALSE, n |-> 0]
EmbeddedCodes == {CodeOf(0), CodeOf(40001), NoCode}

Raised == [kind |-> "raise", status |-> 0, code |-> NoCode, access |-> None, refresh |-> None]
Http(status, code, access, refresh) ==
    [kind |-> "http", status |-> status, code |-> code, access |-> access, refresh |-> refresh]

\* the answers tried: an exception; a refusal, with and without a token in
\* its body; status 200 with every embedded code and every access token;
\* status 200 with a refresh token beside the access token
Replies ==
    {Raised} \cup
    {Http(400, NoCode, a, None) : a \in {None, Plain("T")}} \cup
    {Http(200, c, a, None) : c \in EmbeddedCodes, a \in {None, Plain(""), Plain("T")}} \cup
    {Http(200, c, Plain("T"), Plain("R")) : c \in {CodeOf(0), NoCode}}

\* request.platform or 'google'
BrokerPlatform(p) == IF p = "" THEN "google" ELSE p

\* tokens.json before the first exchange
NoEntry == [access |-> None, refresh |-> None]
EmptyTokenFile == [p \in Platforms |-> NoEntry]

\* OAuthTokenResponse(ok=False, error=...)
Failure(reason, file, submitted) ==
    [ok |-> FALSE, access |-> None, refresh |-> None, error |-> reason,
     file |-> file, submitted |-> submitted]

\* a body check that ignores the embedded code: C19 must not hold of it
AnyBodyAccepted(reply) == TRUE

\* token_data.get("code") == 0
EmbeddedCodeIsZero(reply) == reply.code.has /\ reply.code.n = 0

\* exchange_oauth_code: the code is sent to the provider (reply is the
\* provider's answer), the token is encrypted and written to tokens.json;
\* every exception is turned into OAuthTokenResponse(ok=False)
ExchangeOauthCode(p, reply, file) ==
    LET platform == BrokerPlatform(p) IN
    IF platform \notin Platforms THEN Failure("unsupported", file, FALSE)
    ELSE IF ~brokerEnv.creds THEN Failure("not_configured", file, FALSE)
    ELSE IF reply.kind = "raise" THEN Failure("exception", file, TRUE)
    ELSE IF reply.status # 200 THEN Failure("failed_to_exchange", file, TRUE)
    ELSE IF platform = "tiktok" /\ ~EmbeddedCodeIsZero(reply)
        THEN Failure("api_error", file, TRUE)
    ELSE IF ~brokerEnv.key \/ reply.access.k # "plain"
        THEN Failure("exception", file, TRUE)
    ELSE
        LET access == Enc(reply.access.v)
            refresh == IF Truthy(reply.refresh) THEN Enc(reply.refresh.v) ELSE Plain("")
        IN  [ok |-> TRUE, access |-> access, refresh |-> refresh, error |-> "",
             file |-> [file EXCEPT ![platform] = [access |-> access, refresh |-> refresh]],
             submitted |-> TRUE]

\* what a local helper returns: the token or None, and whether it sent the code
LocalResult(token, submitted) == [token |-> token, submitted |-> submitted]

\* _exchange_meta_code, _exchange_google_code
ExchangeCodeLocally(reply) ==
    IF ~brokerEnv.dashCreds THEN LocalResult(None, FALSE)
    ELSE IF reply.kind = "raise" THEN LocalResult(None, TRUE)
    ELSE IF reply.status = 200 THEN LocalResult(reply.access, TRUE)
    ELSE LocalResult(None, TRUE)

\* _exchange_tiktok_code
ExchangeTikTokCode(reply) ==
    IF ~brokerEnv.dashCreds THEN LocalResult(None, FALSE)
    ELSE IF reply.kind = "raise" THEN LocalResult(None, TRUE)
    ELSE IF reply.status = 200 /\ EmbeddedCodeIsZero(reply) THEN LocalResult(reply.access, TRUE)
    ELSE LocalResult(None, TRUE)

\* the string a token value travels as
TokenString(v) == IF v.k = "enc" THEN "enc:" \o v.v ELSE v.v

\* an environment with no credentials and no key
BareEnv == [creds |-> FALSE, key |-> FALSE, dashCreds |-> FALSE]
Envs == [creds : BOOLEAN, key : BOOLEAN, dashCreds : BOOLEAN]

NoExchange == [fn |-> "none", platform |-> "", reply |-> Raised, ok |-> FALSE,
               token |-> None, error |-> "", fileBefore |-> EmptyTokenFile,
               fileAfter |-> EmptyTokenFile, n |-> 0]

\* POST /oauth/exchange from any client of the broker
BrokerCall(p, reply) ==
    /\ lastEx.n < MaxCalls
    /\ lastEx.fn # "blocked"
    /\ LET r == ExchangeOauthCode(p, reply, tokenFile)
       IN /\ tokenFile' = r.file
          /\ lastEx' = [fn |-> "broker", platform |-> BrokerPlatform(p), reply |-> reply,
                        ok |-> r.ok, token |-> r.access, error |-> r.error,
                        fileBefore |-> tokenFile, fileAfter |-> r.file,
                        n |-> lastEx.n + 1]
    /\ UNCHANGED <<brokerEnv, dash, tokenVars, vaultVars, sessionVars, flowVars, raceVars>>

\* POST /oauth/exchange when the provider never answers: the broker's
\* requests.post(token_url, ...) and requests.get(token_url, ...) are
\* called without a timeout (backend.py lines 110, 141, 171), so the
\* request blocks in the call and exchange_oauth_code does not return
BrokerHang(p) ==
    /\ lastEx.n < MaxCalls
    /\ lastEx.fn # "blocked"
    /\ BrokerPlatform(p) \in Platforms
    /\ brokerEnv.creds
    /\ lastEx' = [fn |-> "blocked", platform |-> BrokerPlatform(p), reply |-> Raised,
                  ok |-> FALSE, token |-> None, error |-> "",
                  fileBefore |-> tokenFile, fileAfter |-> tokenFile,
                  n |-> lastEx.n + 1]
    /\ UNCHANGED <<brokerEnv, tokenFile, dash, tokenVars, vaultVars, sessionVars, flowVars, raceVars>>

\* a call of one of the dashboard's local helpers
LocalCall(p, reply) ==
    /\ lastEx.n < MaxCalls
    /\ lastEx.fn # "blocked"
    /\ LET r == IF p = "tiktok" THEN ExchangeTikTokCode(reply) ELSE ExchangeCodeLocally(reply)
       IN lastEx' = [fn |-> "local", platform |-> p, reply |-> reply,
                     ok |-> r.token # None, token |-> r.token, error |-> "",
                     fileBefore |-> tokenFile, fileAfter |-> tokenFile,
                     n |-> lastEx.n + 1]
    /\ UNCHANGED <<brokerEnv, tokenFile, dash, tokenVars, vaultVars, sessionVars, flowVars, raceVars>>

\* the platform the dashboard's callback works for (lines 50-70)
DashPlatform(p, scope) ==
    IF p # "" THEN p
    ELSE IF scope = "facebook" THEN "meta"
    ELSE IF scope = "tiktok" THEN "tiktok"
    ELSE "google"

Scopes == {"", "facebook", "tiktok"}

\* how the dashboard's POST to the broker ends: answered; timed out while
\* the broker went on with the exchange; no broker listening
Reaches == {"answered", "timeout", "down"}

IdleDash == [pc |-> "idle", platform |-> "", code |-> "", token |-> None, refresh |-> None,
             submits |-> 0, brokerCalls |-> 0, localCalls |-> 0,
             shown |-> "", stored |-> FALSE, n |-> 0]

\* lines 46-77
DashStart(p, code, scope) ==
    /\ dash.pc = "idle"
    /\ dash.n < MaxRuns
    /\ LET d0 == [IdleDash EXCEPT !.platform = DashPlatform(p, scope), !.code = code,
                                  !.n = dash.n]
       IN dash' = IF code = "" \/ d0.platform \notin Platforms
                  THEN [d0 EXCEPT !.pc = "done"]
                  ELSE [d0 EXCEPT !.pc = "broker"]
    /\ UNCHANGED <<brokerEnv, tokenFile, lastEx, tokenVars, vaultVars, sessionVars,
                   flowVars, raceVars>>

\* lines 82-93, 126-145, 204-214: the code is posted to the broker
DashBroker(reach, reply) ==
    /\ dash.pc = "broker"
    /\ LET r == IF reach = "down" THEN Failure("down", tokenFile, FALSE)
                ELSE ExchangeOauthCode(dash.platform, reply, tokenFile)
           d1 == [dash EXCEPT !.brokerCalls = @ + 1,
                              !.submits = IF r.submitted THEN @ + 1 ELSE @]
           got == reach = "answered" /\ r.ok
       IN /\ tokenFile' = r.file
          /\ dash' =
                IF got THEN
                    [d1 EXCEPT !.token = r.access,
                               !.refresh = r.refresh,
                               !.pc = IF dash.platform = "google" THEN "store" ELSE "spend"]
                ELSE IF dash.platform = "google" THEN [d1 EXCEPT !.pc = "local"]
                ELSE [d1 EXCEPT !.pc = "done", !.shown = "error"]
    /\ UNCHANGED <<brokerEnv, lastEx, tokenVars, vaultVars, sessionVars, flowVars, raceVars>>

\* lines 142 and 145: token = _exchange_google_code(code)
DashLocal(reply) ==
    /\ dash.pc = "local"
    /\ LET r == ExchangeCodeLocally(reply)
           d1 == [dash EXCEPT !.localCalls = @ + 1,
                              !.submits = IF r.submitted THEN @ + 1 ELSE @,
                              !.token = r.token]
       IN dash' = IF Truthy(r.token) THEN [d1 EXCEPT !.pc = "store"]
                  ELSE [d1 EXCEPT !.pc = "done"]
    /\ UNCHANGED <<brokerEnv, tokenFile, lastEx, tokenVars, vaultVars, sessionVars,
                   flowVars, raceVars>>

\* lines 147-153: the refresh token if there is one, else the access token,
\* goes to google_connector.store_token_for_google_user
DashStore(krRaises) ==
    /\ dash.pc = "store"
    /\ LET t == IF Truthy(dash.refresh) THEN dash.refresh ELSE dash.token
           r == StoreTokenForUser(keyring, metaFile, "google", DashboardUser,
                                  TokenString(t), krRaises)
       IN /\ keyring' = r.kr
          /\ metaFile' = r.data
          /\ dash' = [dash EXCEPT !.pc = "spend", !.stored = r.ok]
    /\ UNCHANGED <<brokerEnv, tokenFile, lastEx, tokenVars, keyringAvail, canEncrypt,
                   lastOp, opCount, sessionVars, flowVars, raceVars>>

\* lines 95-117, 155-196, 216-234: the spend rows come from the broker, or,
\* for Google, from google_connector.fetch_spend_and_persist when the
\* broker has none
DashSpend(brokerRows, outcome) ==
    /\ dash.pc = "spend"
    /\ IF brokerRows
       THEN /\ spendCsv' = [by |-> dash.platform, kind |-> "broker"]
            /\ dash' = [dash EXCEPT !.pc = "done", !.shown = "connected"]
            /\ UNCHANGED metaFile
       ELSE IF dash.platform # "google"
       THEN /\ dash' = [dash EXCEPT !.pc = "done", !.shown = "warning"]
            /\ UNCHANGED <<spendCsv, metaFile>>
       ELSE IF outcome \in {"real", "synthetic"}
       THEN /\ spendCsv' = [by |-> "google", kind |-> outcome]
            /\ metaFile' = UpdateLastSync(metaFile, "google")
            /\ dash' = [dash EXCEPT !.pc = "done", !.shown = "connected"]
       ELSE /\ dash' = [dash EXCEPT !.pc = "done",
                                    !.shown = IF outcome = "raise" THEN "error" ELSE "connected"]
            /\ UNCHANGED <<spendCsv, metaFile>>
    /\ UNCHANGED <<brokerEnv, tokenFile, lastEx, tokenVars, keyring, keyringAvail, canEncrypt,
                   lastOp, opCount, sessionVars, fastapi, metaCreds, cb, runs, raceVars>>

\* the script run is over; the next callback starts a new one
DashReturn ==
    /\ dash.pc = "done"
    /\ dash.n < MaxRuns
    /\ dash' = [IdleDash EXCEPT !.n = dash.n + 1]
    /\ UNCHANGED <<brokerEnv, tokenFile, lastEx, tokenVars, vaultVars, sessionVars,
                   flowVars, raceVars>>

\* exchange calls arriving one at a time
BrokerNext ==
    \/ \E p \in PlatformParams, reply \in Replies : BrokerCall(p, reply)
    \/ \E p \in PlatformParams : BrokerHang(p)
    \/ \E p \in Platforms, reply \in Replies : LocalCall(p, reply)

\* the dashboard's callback, step by step
DashNext ==
    \/ \E p \in PlatformParams, code \in {"", "X"}, scope \in Scopes : DashStart(p, code, scope)
    \/ \E reach \in Reaches, reply \in Replies : DashBroker(reach, reply)
    \/ \E reply \in Replies : DashLocal(reply)
    \/ \E f \in BOOLEAN : DashStore(f)
    \/ \E b \in BOOLEAN, o \in FetchOutcomes : DashSpend(b, o)
    \/ DashReturn

(***************************************************************************)
(* Claims about the state token codec.                                     *)
(***************************************************************************)
\* the last verify call ran with a signing key on a token that
\* make_state_token produced under that same key
VerifiedOwnSignedToken ==
    /\ vres.called
    /\ HasKey(vres.key)
    /\ issued.key = vres.key

\* C1: with a signing key configured, a token of make_state_token in which
\* one character of the payload part or of the signature part was changed
\* is rejected by verify_state_token.
C1_ChangedCharacterRejected ==
    (VerifiedOwnSignedToken /\ issued.part \in {"payload", "signature"})
        => ~vres.res.ok

\* C2: with a signing key configured, verify_state_token rejects every
\* token that has no '.' separator.
C2_NoSeparatorRejectedUnderKey ==
    (vres.called /\ HasKey(vres.key) /\ ~Contains(vres.tok, ChDot))
        => ~vres.res.ok

\* the last verify call ran on the token exactly as this deployment's
\* make_state_token returned it
VerifiedOwnUntouchedToken ==
    /\ vres.called
    /\ issued.key = vres.key
    /\ issued.part = "none"

\* C13: in both key configurations, verify_state_token of the token that
\* make_state_token returned, with no clock advance, returns the e-mail
\* address the token was issued for.
C13_RoundTripReturnsEmail ==
    (VerifiedOwnUntouchedToken /\ vres.at = issued.at)
        => vres.res = [ok |-> TRUE, email |-> issued.email]

\* C14: in signed and in unsigned mode, verify_state_token rejects a token
\* whose age, the time of the call minus the time it was issued at, is
\* greater than max_age_seconds.
C14_OlderThanMaxAgeRejected ==
    (VerifiedOwnUntouchedToken /\ vres.at - issued.at > vres.maxAge)
        => ~vres.res.ok

\* an unsigned token was verified with max_age_seconds = 1 two seconds
\* after it was issued, and was rejected
C14_UnsignedExpiredAfterTwoSeconds ==
    /\ VerifiedOwnUntouchedToken
    /\ ~HasKey(vres.key)
    /\ vres.maxAge = 1
    /\ vres.at = issued.at + 2
    /\ ~vres.res.ok

\* C25: a token made by make_state_token(email, ttl_seconds = T) is
\* rejected by verify_state_token with its default maximum age once it is
\* older than T seconds, also for T smaller than the default.
C25_TtlBoundsValidity ==
    (/\ VerifiedOwnUntouchedToken
     /\ vres.maxAge = DefaultMaxAge
     /\ vres.at - issued.at > issued.ttl)
        => ~vres.res.ok

\* the issue timestamp a token carries, read the way verify_state_token
\* reads it
EmbeddedTimestamp(token, key) ==
    LET b64 == IF TakesSignedBranch(token, key)
               THEN SubSeq(token, 1, LastIndex(token, ChDot) - 1) ELSE token
        dec == B64Decode(b64)
        payload == dec.bytes
    IN  IF ~dec.ok \/ ~Contains(payload, ChPipe) THEN [ok |-> FALSE, val |-> 0]
        ELSE ParseInt(SubSeq(payload, FirstIndex(payload, ChPipe) + 1, Len(payload)))

\* C29: verify_state_token returns an e-mail address only for a token whose
\* issue timestamp ts satisfies 0 <= now - ts <= maxAge; a timestamp in the
\* future is rejected.
C29_AgeWithinZeroAndMaxAge ==
    (vres.called /\ vres.res.ok) =>
        LET ts == EmbeddedTimestamp(vres.tok, vres.key)
        IN  /\ ts.ok
            /\ 0 <= vres.at - ts.val
            /\ vres.at - ts.val <= vres.maxAge

(***************************************************************************)
(* Claims about the callback.                                              *)
(***************************************************************************)
\* the run carried a state, the state check has run, and verify_state_token
\* did not return an e-mail address
VerifyRejects ==
    /\ Len(cb.state) > 0
    /\ cb.stateAt > 0
    /\ LET v == VerifyStateToken(cb.state, DefaultMaxAge, hmacKey, now)
       IN ~(v.ok /\ Len(v.email) > 0)

\* no token has been written to the keyring or to the file's tokens maps
\* since the run started
NoTokenWritten ==
    /\ keyring = cb.krBefore
    /\ FileTokens(metaFile) = FileTokens(cb.fileBefore)

\* C3: whenever a state is present and verify_state_token rejects it, the
\* run ends in error and no token is written to any backend, for any
\* platform or user key.
C3_RejectedStateWritesNothing ==
    VerifyRejects => (Finished => Errored) /\ NoTokenWritten

\* C3, amended: whenever a state is present, verify_state_token rejects it
\* and the raw state holds no '@', the run ends in error at the state check
\* and no token is written to any backend.
C3_RejectedStateWithoutAtWritesNothing ==
    (VerifyRejects /\ ~Contains(cb.state, ChAt)) => Errored /\ NoTokenWritten

\* a run with a signing key whose state has a bad signature was refused
C3_BadSignatureRefused ==
    /\ VerifyRejects
    /\ HasKey(hmacKey)
    /\ cb.state = BrokenTokenForA
    /\ cb.long # ""
    /\ Errored
    /\ NoTokenWritten

\* C8: in a run that carries a state and a code, no request goes to the
\* provider's token endpoint unless the state has been verified before.
C8_StateVerifiedBeforeExchange ==
    (Len(cb.state) > 0 /\ cb.code # "" /\ cb.exchanges > 0) => cb.stateRes = "verified"

\* C9: fetch_spend_and_persist is called only after the store returned
\* success, so a run that ends with the storage error has written neither
\* the spend export nor last_sync.
C9_FetchOnlyAfterStoreSuccess ==
    /\ cb.fetchCalls > 0 => cb.storedOk
    /\ (Finished /\ cb.storeCalls > 0 /\ ~cb.storedOk) =>
            ~cb.wroteCsv /\ ~cb.wroteLastSync

\* a Meta run that carried a code, got the short-lived token and made the
\* upgrade call, with no state to verify and a cipher for the store
MetaUpgradeRunEnded ==
    /\ Finished
    /\ cb.platform = "meta"
    /\ cb.upgrades > 0
    /\ Len(cb.state) = 0
    /\ canEncrypt

\* C17: a Meta run with a code whose upgrade call yields L ends with L
\* persisted, and one whose upgrade call fails still ends with success and
\* the short-lived token S persisted.
C17_UpgradeFailureFallsBackToShort ==
    MetaUpgradeRunEnded =>
        /\ Succeeded
        /\ GetTokenForUser(keyring, metaFile, "meta", DefaultKey, FALSE)
                = Plain(IF cb.long = "L" THEN "L" ELSE "S")

\* C18: a failed code exchange never raises: a run that sent the code to
\* the provider and got no token ends with a failure response, whatever
\* the provider's outcome was, a timeout included.
C18_FailedExchangeNeverRaises ==
    (Finished /\ cb.exchanges > 0 /\ cb.short = "") =>
        (~cb.raised /\ cb.status >= 400)

\* C21: when Google's fetch_spend_and_persist falls back to the synthetic
\* dataset it does not raise, and what it returns carries a message or flag
\* saying so, so that the caller can tell synthetic rows from provider rows.
C21_SyntheticIsFlagged ==
    (cb.platform = "google" /\ cb.fetchCalls > 0 /\ cb.fetchKind = "synthetic") =>
        /\ cb.fetched.df
        /\ cb.fetched.message # ""
        /\ cb.fetched # FetchReturn("real")

\* the token of this run is what retrieve returns for (platform, user key)
RunTokenStoredUnder(p, u) ==
    GetTokenForUser(keyring, metaFile, p, u, FALSE) = Plain(cb.long)

\* one of the two backends holds the token of this run in slot (p, u)
HoldsRunToken(p, u) ==
    \/ keyring[p][u] = Plain(cb.long)
    \/ FileTokens(metaFile)[p][u] = EncryptToken(cb.long)

\* every token slot other than (p, u) is as it was when the run began
OnlySlotWritten(p, u) ==
    \A q \in Platforms, v \in VaultKeys :
        (q # p \/ v # u) =>
            /\ keyring[q][v] = cb.krBefore[q][v]
            /\ FileTokens(metaFile)[q][v] = FileTokens(cb.fileBefore)[q][v]

\* C22: once the store has returned success, a fetch_spend_and_persist that
\* raises or brings no data changes neither the stored token nor the
\* outcome: the run reports success, without a row count.
C22_FetchFailureKeepsSuccess ==
    (Finished /\ cb.storedOk /\ cb.fetchCalls > 0 /\ ~cb.wroteCsv) =>
        /\ Succeeded
        /\ HoldsRunToken(cb.platform, UserKeyOf(cb.user))
        /\ OnlySlotWritten(cb.platform, UserKeyOf(cb.user))

\* the store succeeded, the fetch raised, and the run reported success
\* without rows
C22_SucceededAfterFetchRaised ==
    /\ Finished
    /\ cb.storedOk
    /\ cb.fetchCalls > 0
    /\ ~cb.rows
    /\ ~cb.wroteCsv
    /\ Succeeded
    /\ RunTokenStoredUnder(cb.platform, UserKeyOf(cb.user))

\* the callback carried a provider-reported error, or neither a token nor
\* a code
RejectedInput == cb.error # "" \/ (cb.token = "" /\ cb.code = "")

\* a run with a rejected input ends in error before any provider request,
\* vault write, spend export or last_sync update
InputRejectionComesFirst ==
    (Finished /\ RejectedInput) =>
        /\ Errored
        /\ cb.exchanges = 0 /\ cb.upgrades = 0 /\ cb.stateAt = 0
        /\ cb.storeCalls = 0 /\ cb.fetchCalls = 0
        /\ keyring = cb.krBefore /\ metaFile = cb.fileBefore
        /\ spendCsv = NoSpend

\* C23: error is absorbing and input rejection comes first: a run with a
\* rejected input ends in error with nothing requested or written, and
\* once a run has failed (its store returned failure) no later step of the
\* run performs a store or a sync.
C23_ErroredIsAbsorbing ==
    /\ InputRejectionComesFirst
    /\ (cb.storeCalls > 0 /\ ~cb.storedOk) =>
            /\ cb.fetchCalls = 0
            /\ spendCsv = NoSpend
            /\ metaFile = cb.fileBefore

\* C24: a present state that fails verification lets the run go on only if
\* it holds '@', and then the token is stored under the raw state string;
\* without '@' the run ends in error with nothing stored; with no state the
\* token is stored in the 'default' slot.
C24_StateFallback ==
    (Finished /\ cb.stateAt > 0) =>
        IF Len(cb.state) = 0
        THEN cb.storedOk => /\ HoldsRunToken(ConnectorOf(cb.platform), DefaultKey)
                            /\ OnlySlotWritten(ConnectorOf(cb.platform), DefaultKey)
        ELSE IF ~VerifyRejects THEN cb.stateRes = "verified"
        ELSE IF Contains(cb.state, ChAt)
        THEN /\ cb.stateRes = "fallback"
             /\ cb.storeCalls = 1
             /\ cb.storedOk => /\ HoldsRunToken(ConnectorOf(cb.platform), cb.state)
                               /\ OnlySlotWritten(ConnectorOf(cb.platform), cb.state)
        ELSE /\ Errored
             /\ cb.storeCalls = 0
             /\ NoTokenWritten

\* a run whose state a@b failed verification stored its token under a@b
C24_StoredUnderRawState ==
    /\ Finished
    /\ VerifyRejects
    /\ cb.state = UserA
    /\ cb.stateRes = "fallback"
    /\ cb.storedOk
    /\ RunTokenStoredUnder(ConnectorOf(cb.platform), UserA)

\* C27: a callback whose platform is missing or is none of meta, google,
\* tiktok writes no token into any of the three platforms' namespaces.
C27_UnknownPlatformWritesNoToken ==
    cb.platform \notin Platforms => NoTokenWritten

(***************************************************************************)
(* Claims about the vault.                                                 *)
(***************************************************************************)
AllFileTokensEncrypted ==
    \A p \in Platforms, u \in VaultKeys : metaFile[p].tokens.map[u].k \in {"none", "enc"}

\* C4: every value in the persisted tokens maps is cipher output, and a
\* store whose keyring write fails or is unavailable while the cipher is
\* unavailable returns failure and leaves the file as it was.
C4_TokensNeverPlainInFile ==
    /\ []AllFileTokensEncrypted
    /\ [][(lastOp'.op = "store" /\ opCount' = opCount + 1
            /\ ~lastOp'.krUsable /\ ~canEncrypt)
          => (~lastOp'.ok /\ metaFile' = metaFile)]_vars

\* a store failed for want of keyring and cipher while the file held an
\* encrypted token written earlier
C4_FailedStoreBesideEncryptedToken ==
    /\ lastOp.op = "store"
    /\ ~lastOp.krUsable
    /\ ~canEncrypt
    /\ ~lastOp.ok
    /\ \E p \in Platforms, u \in UserKeys : metaFile[p].tokens.map[u].k = "enc"

\* C5: a (platform, userKey) never has an entry in the keyring and an entry
\* in the file's tokens map at once.
C5_AtMostOneBackend ==
    \A p \in Platforms, u \in UserKeys :
        ~(Truthy(keyring[p][u]) /\ Truthy(metaFile[p].tokens.map[u]))

\* C6: after a store that returned success, retrieve for the same platform
\* and user key returns the token just stored.
C6_StoreThenRetrieve ==
    (lastOp.op = "store" /\ lastOp.ok) =>
        GetTokenForUser(keyring, metaFile, lastOp.p, lastOp.u, FALSE) = Plain(lastOp.t)

\* C10: after a storeCredential made while the cipher is available the
\* platform's persisted metadata has no plaintext client_secret.
C10_NoPlaintextSecretUnderCipher ==
    (lastOp.op = "storeCredential" /\ canEncrypt) =>
        ~Present(metaFile[lastOp.p].f["client_secret"])

CredentialFields == {"client_id", "client_secret", "client_secret_enc", "redirect_uri"}

\* C11: after 'Remove OAuth settings' for a platform, load_meta of that
\* platform returns no client id, no client secret (plain or encrypted) and
\* no redirect URI.
C11_RemoveClearsCredential ==
    lastOp.op = "removeCredential" =>
        \A x \in CredentialFields : ~Present(LoadMeta(metaFile, lastOp.p).f[x])

C15_MigrateMovesToken ==
    [][(lastOp'.op = "migrate" /\ opCount' = opCount + 1 /\ lastOp'.ok) =>
        /\ TokenStorageLocation(keyring', metaFile', lastOp'.p, lastOp'.u, FALSE) = "keyring"
        /\ ~Present(metaFile'[lastOp'.p].tokens.map[lastOp'.u])
        /\ keyring'[lastOp'.p][lastOp'.u] = DecryptToken(metaFile[lastOp'.p].tokens.map[lastOp'.u])
        /\ \A w \in UserKeys \ {lastOp'.u} :
                metaFile'[lastOp'.p].tokens.map[w] = metaFile[lastOp'.p].tokens.map[w]]_vars

\* a token was migrated while another user's token stayed in the file
C15_MigratedBesideOtherUser ==
    /\ lastOp.op = "migrate"
    /\ lastOp.ok
    /\ Truthy(keyring[lastOp.p][lastOp.u])
    /\ \E w \in UserKeys \ {lastOp.u} : Truthy(metaFile[lastOp.p].tokens.map[w])

\* C16: a save of a credential record leaves the platform's tokens map,
\* its account mappings, its last_sync and every field that is not in the
\* record as they were, and leaves every other platform's entry as it was.
C16_StoreCredentialMerges ==
    [][(lastOp'.op = "storeCredential" /\ opCount' = opCount + 1 /\ lastOp'.ok) =>
        /\ metaFile'[lastOp'.p].tokens = metaFile[lastOp'.p].tokens
        /\ \A x \in Fields \ CredentialFields :
                metaFile'[lastOp'.p].f[x] = metaFile[lastOp'.p].f[x]
        /\ lastOp'.p # "meta" =>
                metaFile'[lastOp'.p].f["redirect_uri"] = metaFile[lastOp'.p].f["redirect_uri"]
        /\ \A q \in Platforms \ {lastOp'.p} : metaFile'[q] = metaFile[q]]_vars

\* a credential record was saved for Meta, which had a token in the file,
\* a last_sync entry and account mappings
C16_SavedBesideTokenAndMappings ==
    /\ lastOp.op = "storeCredential"
    /\ lastOp.ok
    /\ lastOp.p = "meta"
    /\ Present(metaFile["meta"].f["client_id"])
    /\ \E u \in UserKeys : Truthy(metaFile["meta"].tokens.map[u])
    /\ Present(metaFile["meta"].f["last_sync"])
    /\ Truthy(metaFile["meta"].f["email_ad_accounts"])

(***************************************************************************)
(* Claims about the broker and the dashboard's callback.                   *)
(***************************************************************************)
\* the last exchange call was for TikTok and the provider answered 200 with
\* an embedded code other than 0
TikTokEmbeddedError ==
    /\ lastEx.fn # "none"
    /\ lastEx.platform = "tiktok"
    /\ lastEx.reply.kind = "http"
    /\ lastEx.reply.status = 200
    /\ lastEx.reply.code # CodeOf(0)

\* C19: a TikTok exchange answered with status 200 and an embedded code
\* other than 0 is a failure: no success, no token, nothing written to
\* tokens.json; a TikTok success has status 200 and embedded code 0.
C19_TikTokEmbeddedErrorIsFailure ==
    /\ TikTokEmbeddedError =>
            /\ ~lastEx.ok
            /\ lastEx.token = None
            /\ lastEx.fileAfter = lastEx.fileBefore
    /\ (lastEx.platform = "tiktok" /\ lastEx.ok) =>
            /\ lastEx.reply.kind = "http"
            /\ lastEx.reply.status = 200
            /\ lastEx.reply.code = CodeOf(0)

\* the broker, with credentials and a key, got a token beside the embedded
\* error code and refused it, and so did the local helper of a dashboard
\* with credentials
C19_BrokerRefusedTokenBesideErrorCode ==
    /\ TikTokEmbeddedError
    /\ lastEx.reply.access = Plain("T")
    /\ \/ lastEx.fn = "broker" /\ brokerEnv.creds /\ brokerEnv.key
       \/ lastEx.fn = "local" /\ brokerEnv.dashCreds
    /\ lastEx.error = IF lastEx.fn = "broker" THEN "api_error" ELSE ""
    /\ ~lastEx.ok

\* C30: every exchange a callback starts comes to an end with a reported
\* outcome, even when the provider never answers: no exchange step blocks
\* forever.
C30_EveryExchangeReturns ==
    (lastEx.fn = "blocked") ~> (lastEx.fn # "blocked")

\* C20: nothing is retried: within one callback run the authorization code
\* is sent to a provider's token endpoint at most once.
C20_CodeSubmittedAtMostOnce ==
    dash.submits <= 1

\* C26: whenever migrate_file_token_to_keyring returns True, the persisted
\* Meta metadata no longer holds access_token_encrypted, a second call
\* would return False, and get_token_for_meta returns the migrated token.
C26_LegacyMigrationMovesToken ==
    (lastOp.op = "migrateLegacy" /\ lastOp.ok) =>
        /\ ~Present(metaFile["meta"].f["access_token_encrypted"])
        /\ ~(keyringAvail /\ Truthy(DecryptToken(LoadMeta(metaFile, "meta").f["access_token_encrypted"])))
        /\ GetTokenForUser(keyring, metaFile, "meta", DefaultKey, FALSE) = lastOp.res

(***************************************************************************)
(* Claims about concurrent requests.                                       *)
(***************************************************************************)
\* C7: when two requests for different platforms have each completed one
\* call, whatever the interleaving, the vault holds what both have written.
C7_ConcurrentPlatformsLoseNothing ==
    (/\ \A i \in Procs : procs[i].pc = "idle" /\ procs[i].jobs = 1 /\ procs[i].ok
     /\ procs[1].p # procs[2].p)
    => \A i \in Procs : Applied(procs[i])

\* C28: in encrypted-file mode, two concurrent stores on one platform for
\* two different user keys that both returned success leave both users'
\* tokens in the tokens map, whatever the interleaving.
C28_ConcurrentUsersLoseNothing ==
    (/\ \A i \in Procs : /\ procs[i].pc = "idle" /\ procs[i].jobs = 1 /\ procs[i].ok
                          /\ procs[i].job = "store" /\ procs[i].mode = "file"
     /\ procs[1].p = procs[2].p
     /\ procs[1].u # procs[2].u)
    => \A i \in Procs : metaFile[procs[i].p].tokens.map[procs[i].u] = EncryptToken(procs[i].t)

(***************************************************************************)
(* Specifications.                                                         *)
(***************************************************************************)

\* the state token round trip alone
InitToken ==
    /\ hmacKey \in Keys
    /\ now = 0
    /\ tok = <<>>
    /\ issued = NotIssued
    /\ vres = NotVerified
    /\ keyring = EmptyKeyring
    /\ metaFile = EmptyFile
    /\ keyringAvail = FALSE
    /\ canEncrypt = FALSE
    /\ lastOp = NoOp
    /\ opCount = 0
    /\ confirm = [p \in Platforms |-> FALSE]
    /\ fastapi = TRUE
    /\ metaCreds = FALSE
    /\ cb = IdleCb
    /\ spendCsv = NoSpend
    /\ runs = 0
    /\ procs = <<>>
    /\ brokerEnv = BareEnv
    /\ tokenFile = EmptyTokenFile
    /\ dash = IdleDash
    /\ lastEx = NoExchange

SpecToken == InitToken /\ [][TokenNext]_vars

\* the vault's operations, one at a time
InitVault ==
    /\ hmacKey = <<>>
    /\ now = 0
    /\ tok = <<>>
    /\ issued = NotIssued
    /\ vres = NotVerified
    /\ keyring = EmptyKeyring
    /\ metaFile \in {EmptyFile,
                      [EmptyFile EXCEPT !["meta"].f["access_token_encrypted"] = Enc("S")]}
    /\ keyringAvail \in BOOLEAN
    /\ canEncrypt \in BOOLEAN
    /\ lastOp = NoOp
    /\ opCount = 0
    /\ confirm = [p \in Platforms |-> FALSE]
    /\ fastapi = TRUE
    /\ metaCreds = FALSE
    /\ cb = IdleCb
    /\ spendCsv = NoSpend
    /\ runs = 0
    /\ procs = <<>>
    /\ brokerEnv = BareEnv
    /\ tokenFile = EmptyTokenFile
    /\ dash = IdleDash
    /\ lastEx = NoExchange

SpecVault == InitVault /\ [][VaultNext]_vars

\* callback runs against the vault
InitFlow ==
    /\ hmacKey \in Keys
    /\ now \in {0, DefaultMaxAge + 1}
    /\ tok = <<>>
    /\ issued = NotIssued
    /\ vres = NotVerified
    /\ keyring = EmptyKeyring
    /\ metaFile = EmptyFile
    /\ keyringAvail \in BOOLEAN
    /\ canEncrypt \in BOOLEAN
    /\ lastOp = NoOp
    /\ opCount = 0
    /\ confirm = [p \in Platforms |-> FALSE]
    /\ fastapi \in BOOLEAN
    /\ metaCreds \in BOOLEAN
    /\ cb = IdleCb
    /\ spendCsv = NoSpend
    /\ runs = 0
    /\ procs = <<>>
    /\ brokerEnv = BareEnv
    /\ tokenFile = EmptyTokenFile
    /\ dash = IdleDash
    /\ lastEx = NoExchange

SpecFlow == InitFlow /\ [][FlowNext]_vars
\* two requests calling into the connectors concurrently
InitRace ==
    /\ hmacKey = <<>>
    /\ now = 0
    /\ tok = <<>>
    /\ issued = NotIssued
    /\ vres = NotVerified
    /\ keyring = EmptyKeyring
    /\ metaFile = EmptyFile
    /\ keyringAvail \in BOOLEAN
    /\ canEncrypt \in BOOLEAN
    /\ lastOp = NoOp
    /\ opCount = 0
    /\ confirm = [p \in Platforms |-> FALSE]
    /\ fastapi = TRUE
    /\ metaCreds = FALSE
    /\ cb = IdleCb
    /\ spendCsv = NoSpend
    /\ runs = 0
    /\ procs = <<IdleProc, IdleProc>>
    /\ brokerEnv = BareEnv
    /\ tokenFile = EmptyTokenFile
    /\ dash = IdleDash
    /\ lastEx = NoExchange

SpecRace == InitRace /\ [][RaceNext]_vars

\* exchange calls to the broker and to the dashboard's local helpers
InitBroker ==
    /\ hmacKey = <<>>
    /\ now = 0
    /\ tok = <<>>
    /\ issued = NotIssued
    /\ vres = NotVerified
    /\ keyring = EmptyKeyring
    /\ metaFile = EmptyFile
    /\ keyringAvail = FALSE
    /\ canEncrypt = FALSE
    /\ lastOp = NoOp
    /\ opCount = 0
    /\ confirm = [p \in Platforms |-> FALSE]
    /\ fastapi = TRUE
    /\ metaCreds = FALSE
    /\ cb = IdleCb
    /\ spendCsv = NoSpend
    /\ runs = 0
    /\ procs = <<>>
    /\ brokerEnv \in Envs
    /\ tokenFile = EmptyTokenFile
    /\ dash = IdleDash
    /\ lastEx = NoExchange

SpecBroker == InitBroker /\ [][BrokerNext]_vars

\* the same, with every step that is enabled eventually taken: a request
\* that can go on does go on
SpecBrokerFair == InitBroker /\ [][BrokerNext]_vars /\ WF_vars(BrokerNext)

\* the dashboard's callback against the broker
InitDash ==
    /\ hmacKey = <<>>
    /\ now = 0
    /\ tok = <<>>
    /\ issued = NotIssued
    /\ vres = NotVerified
    /\ keyring = EmptyKeyring
    /\ metaFile = EmptyFile
    /\ keyringAvail \in BOOLEAN
    /\ canEncrypt \in BOOLEAN
    /\ lastOp = NoOp
    /\ opCount = 0
    /\ confirm = [p \in Platforms |-> FALSE]
    /\ fastapi = TRUE
    /\ metaCreds = FALSE
    /\ cb = IdleCb
    /\ spendCsv = NoSpend
    /\ runs = 0
    /\ procs = <<>>
    /\ brokerEnv \in Envs
    /\ tokenFile = EmptyTokenFile
    /\ dash = IdleDash
    /\ lastEx = NoExchange

SpecDash == InitDash /\ [][DashNext]_vars

====
